---- MODULE Spec2Model ----
(***************************************************************************)
(* autocodegen: the generation pipeline of src/autocodegen/_internal/      *)
(* expand.py (generate and its passes), the guard functions it consults,   *)
(* and the driver main() of src/autocodegen/run.py, over an explicit       *)
(* filesystem.  Paths are strings as str(Path) prints them; a filesystem   *)
(* is a function from the paths that exist to their nodes.                 *)
(***************************************************************************)
EXTENDS Naturals, Sequences, FiniteSets, TLC

VARIABLES
    fs,       \* the filesystem: path -> [kind, data]
    cfg,      \* workspace_configs: the ordered list of ProjectConfig
    pc,       \* position of the running generate() call
    ctx,      \* the Context of the running generate() call
    hist,     \* what the running call has done so far (passes, calls, moves, touched)
    done,     \* one summary per generate() call that has ended
    pending,  \* __pycache__ paths handed to detached cleanup processes
    ask,      \* an evaluation of the guard functions: arguments and results
    mainSt    \* how the latest main() invocation ended

vars == <<fs, cfg, pc, ctx, hist, done, pending, ask, mainSt>>

-----------------------------------------------------------------------------
(* Bounds of the model *)

MaxRuns == 2        \* generate() calls in one behaviour
MaxFeatures == 2    \* kinds of pipeline entries in template A's bootstrap tree
MaxSegments == 3    \* pieces a file name is put together from

-----------------------------------------------------------------------------
(* Strings and paths (str, pathlib.PurePath) *)

\* str.endswith
EndsWith(s, e) ==
    /\ Len(s) >= Len(e)
    /\ SubSeq(s, Len(s) - Len(e) + 1, Len(s)) = e

\* str.removesuffix
RemoveSuffix(s, e) ==
    IF EndsWith(s, e) /\ Len(e) > 0 THEN SubSeq(s, 1, Len(s) - Len(e)) ELSE s

\* s[:-n] for n > 0
DropLast(s, n) == IF Len(s) > n THEN SubSeq(s, 1, Len(s) - n) ELSE ""

RECURSIVE LastSlashFrom(_, _)
LastSlashFrom(s, i) ==
    IF i = 0 THEN 0
    ELSE IF SubSeq(s, i, i) = "/" THEN i
    ELSE LastSlashFrom(s, i - 1)

\* Path(s): a trailing separator is dropped (the paths here have no "." or
\* empty components besides that)
RECURSIVE Norm(_)
Norm(s) ==
    IF Len(s) > 1 /\ EndsWith(s, "/") THEN Norm(SubSeq(s, 1, Len(s) - 1)) ELSE s

\* Path.parent and Path.name of a normalised absolute path
Parent(p) ==
    LET i == LastSlashFrom(p, Len(p))
    IN  IF i <= 1 THEN "/" ELSE SubSeq(p, 1, i - 1)

Name(p) == SubSeq(p, LastSlashFrom(p, Len(p)) + 1, Len(p))

\* Path.__truediv__: an absolute right operand replaces the left one, "."
\* adds nothing
Join(p, n) ==
    IF n = "." \/ n = "" THEN p
    ELSE IF SubSeq(n, 1, 1) = "/" THEN Norm(n)
    ELSE IF p = "/" THEN Norm("/" \o n)
    ELSE Norm(p \o "/" \o n)

\* PurePath.is_relative_to: component-wise, reflexive
IsRelativeTo(p, d) ==
    \/ p = d
    \/ d = "/"
    \/ /\ Len(p) > Len(d)
       /\ SubSeq(p, 1, Len(d) + 1) = d \o "/"

-----------------------------------------------------------------------------
(* The pipeline suffixes *)

TEMPLATE_MAKO_EXT == ".mako"
GEN == ".gen.py"
GEN_ONCE == ".gen1.py"
REN == ".rename"
RENR == ".rename.py"
REN_ONCE == ".ren1"
RENR_ONCE == ".ren1.py"
FRA == ".fra.py"
PYCACHE == "__pycache__"

-----------------------------------------------------------------------------
(* Filesystem *)

Dir == [kind |-> "dir", data |-> ""]

\* a directory the process may list and search but not write into
ReadOnlyDir == [kind |-> "dir", data |-> "r-x"]
File(text) == [kind |-> "file", data |-> text]

Exists(f, p) == p \in DOMAIN f
IsDir(f, p) == p \in DOMAIN f /\ f[p].kind = "dir"
IsReadOnlyDir(f, p) == p \in DOMAIN f /\ f[p] = ReadOnlyDir
IsFile(f, p) == p \in DOMAIN f /\ f[p].kind = "file"

\* every path of f at or below p
Tree(f, p) == {q \in DOMAIN f : IsRelativeTo(q, p)}

\* f with the paths of the set gone
Without(f, gone) == [q \in DOMAIN f \ gone |-> f[q]]

\* f with the nodes of g added or replaced
Overlay(f, g) ==
    [q \in DOMAIN f \cup DOMAIN g |-> IF q \in DOMAIN g THEN g[q] ELSE f[q]]

\* the proper ancestors of p below the filesystem root
RECURSIVE Ancestors(_)
Ancestors(p) ==
    IF Parent(p) = "/" THEN {} ELSE {Parent(p)} \cup Ancestors(Parent(p))

\* os.makedirs(d, exist_ok=True): d and its missing ancestors become
\* directories; ok is FALSE when one of them exists as a file
MakeDirs(f, d) ==
    LET chain == {d} \cup Ancestors(d)
        new == {q \in chain : ~Exists(f, q)}
    IN  [ok |-> \A q \in chain : ~IsFile(f, q),
         fs |-> Overlay(f, [q \in new |-> Dir]),
         touched |-> new]

\* the path of q, found at or below src, moved below dst
Rebase(q, src, dst) ==
    IF q = src THEN dst ELSE Join(dst, SubSeq(q, Len(src) + 2, Len(q)))

\* shutil.copytree(src, dst, symlinks=True, dirs_exist_ok=True) with the
\* entries of `ignored` (and what lies below them) left out.  A directory
\* entry whose destination is a file fails and is not descended into; a file
\* entry whose destination is a directory is copied into that directory
\* (shutil.copy2); a failed entry does not stop the copy, which raises
\* shutil.Error at its end.
CopyTree(f, src, dst, ignored) ==
    LET below == Tree(f, src) \ {src}
        skipped(q) == \E a \in ({q} \cup Ancestors(q)) :
                          IsRelativeTo(a, src) /\ a # src /\ a \in ignored
        visited == {q \in below : ~skipped(q)}
        badDir(q) == IsDir(f, q) /\ IsFile(f, Rebase(q, src, dst))
        blocked(q) == \E a \in Ancestors(q) :
                          IsRelativeTo(a, src) /\ a # src /\ badDir(a)
        live == {q \in visited : ~blocked(q)}
        into(q) == IF IsFile(f, q) /\ IsDir(f, Rebase(q, src, dst))
                   THEN Join(Rebase(q, src, dst), Name(q))
                   ELSE Rebase(q, src, dst)
        badFile(q) == IsFile(f, q) /\ IsDir(f, into(q))
        copied == {q \in live : ~badDir(q) /\ ~badFile(q)}
        top == MakeDirs(f, dst)
        written == {into(q) : q \in copied}
        src_of(t) == CHOOSE q \in copied : into(q) = t
    IN  IF ~IsDir(f, src) \/ ~top.ok
        THEN [ok |-> FALSE, fs |-> f, touched |-> {}]
        ELSE [ok |-> \A q \in live : ~badDir(q) /\ ~badFile(q),
              fs |-> Overlay(top.fs, [t \in written |-> f[src_of(t)]]),
              touched |-> top.touched \cup
                          {t \in written : ~Exists(f, t) \/ IsFile(f, t)}]

\* shutil.rmtree(p)
RmTree(f, p) == Without(f, Tree(f, p))

-----------------------------------------------------------------------------
(* Configuration (config.py), as the pipeline reads it *)

\* one entry of ProjectConfig.templates, in the mapping's order, with the
\* attributes expand.py reads from it: template_config.target_dir,
\* template_config.init and template_config.self_defence (config.py keeps
\* these under ProjectConfigTemplate.bootstrap, where run.py reads init)
TemplateEntry(name, init, self_defence, target_dir) ==
    [name |-> name, init |-> init, self_defence |-> self_defence,
     target_dir |-> target_dir]

NoWorkspace == [has |-> FALSE, init |-> FALSE, members |-> <<>>]
Workspace(init, members) == [has |-> TRUE, init |-> init, members |-> members]

\* ProjectConfig.load derives project_root from templates_root
ProjectConfig(name, templates_root, workspace, templates) ==
    [project_name |-> name,
     project_root |-> Parent(templates_root),
     templates_root |-> templates_root,
     workspace |-> workspace,
     templates |-> templates]

-----------------------------------------------------------------------------
(* The self-defence guard *)

is_file_in_directory(file_path, dir_path) == IsRelativeTo(file_path, dir_path)

\* the loop over project_config.templates.items(): the first template whose
\* directory holds target_path decides
RECURSIVE OwningTemplateDefence(_, _, _)
OwningTemplateDefence(project_config, target_path, i) ==
    IF i > Len(project_config.templates) THEN TRUE
    ELSE IF is_file_in_directory(
                target_path,
                Join(project_config.templates_root,
                     project_config.templates[i].name))
         THEN project_config.templates[i].self_defence
         ELSE OwningTemplateDefence(project_config, target_path, i + 1)

\* is_project_self_defence that does not protect what lies in no declared
\* template's directory
is_project_self_defence_declared_only(project_config, target_path) ==
    /\ target_path # project_config.templates_root
    /\ \E i \in DOMAIN project_config.templates :
           /\ is_file_in_directory(
                  target_path,
                  Join(project_config.templates_root,
                       project_config.templates[i].name))
           /\ project_config.templates[i].self_defence

is_project_self_defence(project_config, target_path) ==
    IF target_path = project_config.templates_root THEN FALSE
    ELSE IF is_file_in_directory(target_path, project_config.templates_root)
         THEN OwningTemplateDefence(project_config, target_path, 1)
         ELSE FALSE

\* the workspace loop stopping at its first project
WorkspaceDefenceFirstOnly(workspace_configs, target_path, i) ==
    /\ i <= Len(workspace_configs)
    /\ is_project_self_defence(workspace_configs[i], target_path)

\* the loop of is_workspace_self_defence over ctx.workspace_configs
RECURSIVE WorkspaceDefenceFrom(_, _, _)
WorkspaceDefenceFrom(workspace_configs, target_path, i) ==
    IF i > Len(workspace_configs) THEN FALSE
    ELSE IF is_project_self_defence(workspace_configs[i], target_path) THEN TRUE
    ELSE WorkspaceDefenceFrom(workspace_configs, target_path, i + 1)

is_workspace_self_defence(c, target_path) ==
    WorkspaceDefenceFrom(c.workspace_configs, target_path, 1)

-----------------------------------------------------------------------------
(* Scripts and templates: what a file's text does when it is loaded *)

StartsWith(s, pre) == Len(s) >= Len(pre) /\ SubSeq(s, 1, Len(pre)) = pre

\* The text of a script stands for the module it defines:
\*   "generate:<text>"  def generate(ctx): return <text>
\*   "generate!"        def generate(ctx): raise ...
\*   "generate/2"       def generate(a, b): ...
\*   "rename:<name>"    def rename(ctx): return <name>
\*   "rename!"          def rename(ctx): raise ...
\*   "syntax!"          a module whose execution fails
\* and any other text for a module defining neither function.
ModuleLoads(text) == text # "syntax!"

\* import_module_from_file: a module that executes leaves its bytecode in
\* the __pycache__ directory beside it
import_module_from_file(f, mod_path) ==
    IF ~IsFile(f, mod_path) \/ ~ModuleLoads(f[mod_path].data)
    THEN [ok |-> FALSE, err |-> "ModuleDynamicImportError", fs |-> f,
          text |-> "", touched |-> {}]
    ELSE LET cache == Join(Parent(mod_path), PYCACHE)
         IN  [ok |-> TRUE, err |-> "",
              fs |-> IF Exists(f, cache) THEN f
                     ELSE Overlay(f, [q \in {cache} |-> Dir]),
              text |-> f[mod_path].data,
              touched |-> IF Exists(f, cache) THEN {} ELSE {cache}]

\* an interface check that looks for the function and not at its parameters
GenerateInterfaceErrorByNameOnly(text) ==
    IF ~StartsWith(text, "generate") THEN "InvalidGeneratorError" ELSE ""

\* import_generate_func: "" when the module offers generate(ctx)
GenerateInterfaceError(text) ==
    IF ~StartsWith(text, "generate") THEN "InvalidGeneratorError"
    ELSE IF StartsWith(text, "generate/") THEN "InvalidGeneratorError"
    ELSE ""

\* mako: "$<rest>" substitutes the project name, "%..." does not compile,
\* other text renders to itself
RenderFails(text) == StartsWith(text, "%")
Render(text, project_name) ==
    IF StartsWith(text, "$")
    THEN project_name \o SubSeq(text, 2, Len(text))
    ELSE text

-----------------------------------------------------------------------------
(* Directory sweeps *)

\* the set get_paths_by_ext collects: os.walk visits every directory below
\* target_root, the templates root included when it lies there, and only the
\* selected names are tested against templates_root
Matched(f, target_root, ext, with_dirs, templates_root) ==
    {q \in DOMAIN f :
        /\ IsDir(f, target_root)
        /\ q # target_root
        /\ IsRelativeTo(q, target_root)
        /\ with_dirs \/ ~IsDir(f, q)
        /\ EndsWith(Name(q), ext)
        /\ ~IsRelativeTo(q, templates_root)}

RECURSIVE Perms(_)
Perms(S) ==
    IF S = {} THEN {<<>>}
    ELSE UNION {{<<x>> \o s : s \in Perms(S \ {x})} : x \in S}

Pos(s, x) == CHOOSE i \in 1..Len(s) : s[i] = x

\* an order os.walk (top-down) can list the set in: a directory's own
\* entries before anything deeper, its files before its directories, the
\* entries below one directory in one block, and the blocks of two listed
\* sibling directories in the order the directories were listed.  The order
\* of the entries of one directory is the operating system's.
WalkOrder(f, s) ==
    LET S == {s[i] : i \in 1..Len(s)}
        below(x, d) == IsRelativeTo(x, d) /\ x # d
    IN  /\ \A a, b \in S :
              /\ (Parent(a) = Parent(b) /\ ~IsDir(f, a) /\ IsDir(f, b))
                     => Pos(s, a) < Pos(s, b)
              /\ below(Parent(b), Parent(a)) => Pos(s, a) < Pos(s, b)
              /\ (/\ Parent(a) = Parent(b)
                  /\ IsDir(f, a) /\ IsDir(f, b) /\ Pos(s, a) < Pos(s, b))
                     => \A x, y \in S :
                            (below(x, a) /\ below(y, b)) => Pos(s, x) < Pos(s, y)
        /\ \A a, b, c \in S :
              (Pos(s, a) < Pos(s, b) /\ Pos(s, b) < Pos(s, c))
                  => \A d \in Ancestors(a) \cap Ancestors(c) : below(b, d)

get_paths_by_ext(f, target_root, ext, with_dirs, templates_root) ==
    {s \in Perms(Matched(f, target_root, ext, with_dirs, templates_root)) :
        WalkOrder(f, s)}

-----------------------------------------------------------------------------
(* The passes of generate().  Each takes the filesystem, the Context and the
   order the sweep listed its paths in, and returns
   [ok, err, fs, calls, touched, moves]. *)

Outcome(ok, err, f, calls, touched, moves) ==
    [ok |-> ok, err |-> err, fs |-> f, calls |-> calls, touched |-> touched,
     moves |-> moves]

\* Path.unlink() of every path of the sweep
UnlinkAll(r, paths) ==
    IF \E q \in paths : ~IsFile(r.fs, q)
    THEN [r EXCEPT !.ok = FALSE, !.err = "FileNotFoundError"]
    ELSE IF \E q \in paths : IsReadOnlyDir(r.fs, Parent(q))
    THEN [r EXCEPT !.ok = FALSE, !.err = "PermissionError"]
    ELSE [r EXCEPT !.fs = Without(r.fs, paths),
                   !.touched = r.touched \cup paths]

\* expand_mako, then shutil.copystat, for one template file: a failed render
\* is raised; a failed write (the output path is a directory, or a new file
\* in a directory that cannot be written) is printed and swallowed, and
\* copystat then raises if the output does not exist
expand_mako(r, c, in_template_path) ==
    LET out_file_path == RemoveSuffix(in_template_path, TEMPLATE_MAKO_EXT)
        text == r.fs[in_template_path].data
    IN  IF ~IsFile(r.fs, in_template_path)
        THEN [r EXCEPT !.ok = FALSE, !.err = "TemplateLookupException"]
        ELSE IF RenderFails(text)
        THEN [r EXCEPT !.ok = FALSE, !.err = "MakoException"]
        ELSE IF IsDir(r.fs, out_file_path)
        THEN r
        ELSE IF ~Exists(r.fs, out_file_path)
                /\ IsReadOnlyDir(r.fs, Parent(out_file_path))
        THEN [r EXCEPT !.ok = FALSE, !.err = "FileNotFoundError"]
        ELSE [r EXCEPT
                 !.fs = Overlay(r.fs, [q \in {out_file_path} |->
                            File(Render(text, c.project_config.project_name))]),
                 !.touched = r.touched \cup {out_file_path}]

RECURSIVE MakoLoop(_, _, _, _)
MakoLoop(r, c, order, i) ==
    IF i > Len(order) \/ ~r.ok THEN r
    ELSE MakoLoop(expand_mako(r, c, order[i]), c, order, i + 1)

expand_mako_all(f, c, order) ==
    LET r == MakoLoop(Outcome(TRUE, "", f, {}, {}, <<>>), c, order, 1)
    IN  IF r.ok THEN UnlinkAll(r, {order[i] : i \in 1..Len(order)}) ELSE r

\* expand_gen: load, check the interface, call, write
expand_gen(r, c, gen_mod_path, target_file_path) ==
    LET m == import_module_from_file(r.fs, gen_mod_path)
        loaded == [r EXCEPT !.fs = m.fs, !.touched = r.touched \cup m.touched]
        called == [loaded EXCEPT !.calls = loaded.calls \cup {gen_mod_path}]
    IN  IF ~m.ok THEN [r EXCEPT !.ok = FALSE, !.err = m.err]
        ELSE IF GenerateInterfaceError(m.text) # ""
        THEN [loaded EXCEPT !.ok = FALSE, !.err = GenerateInterfaceError(m.text)]
        ELSE IF m.text = "generate!"
        THEN [called EXCEPT
                 !.ok = FALSE,
                 !.err = "GeneratorRaised: Failed executing generate(ctx) from "
                             \o gen_mod_path]
        ELSE IF IsDir(called.fs, target_file_path)
        THEN [called EXCEPT
                 !.ok = FALSE,
                 !.err = "IsADirectoryError: Failed writing to target file: "
                             \o target_file_path]
        ELSE [called EXCEPT
                 !.fs = Overlay(called.fs, [q \in {target_file_path} |->
                            File(SubSeq(m.text, Len("generate:") + 1, Len(m.text)))]),
                 !.touched = called.touched \cup {target_file_path}]

RECURSIVE GenLoop(_, _, _, _, _)
GenLoop(r, c, gen_ext, order, i) ==
    IF i > Len(order) \/ ~r.ok THEN r
    ELSE GenLoop(expand_gen(r, c, order[i], RemoveSuffix(order[i], gen_ext)),
                 c, gen_ext, order, i + 1)

\* expand_gen_all that leaves the generator scripts in place
expand_gen_all_keeping(f, c, gen_ext, order) ==
    GenLoop(Outcome(TRUE, "", f, {}, {}, <<>>), c, gen_ext, order, 1)

\* expand_gen_all that removes the generator scripts whether or not the
\* sweep went through
expand_gen_all_always_unlinking(f, c, gen_ext, order) ==
    LET r == GenLoop(Outcome(TRUE, "", f, {}, {}, <<>>), c, gen_ext, order, 1)
    IN  [r EXCEPT !.fs = Without(r.fs, {order[i] : i \in 1..Len(order)})]

expand_gen_all(f, c, gen_ext, order) ==
    LET r == GenLoop(Outcome(TRUE, "", f, {}, {}, <<>>), c, gen_ext, order, 1)
    IN  IF r.ok THEN UnlinkAll(r, {order[i] : i \in 1..Len(order)}) ELSE r

\* get_rename_destination_path that does not look for a renamer script
get_rename_destination_path_plain(r, c, orig_path_str) ==
    [out |-> r, dest |-> DropLast(orig_path_str, Len(REN))]

\* get_rename_destination_path(ctx, orig_path_str, delete_renamer=True):
\* the outcome so far, extended, and the destination string
get_rename_destination_path(r, c, orig_path_str) ==
    LET dest_path_str == DropLast(orig_path_str, Len(REN))
        renamer_path == Norm(dest_path_str \o RENR)
        m == import_module_from_file(r.fs, renamer_path)
        loaded == [r EXCEPT !.fs = m.fs, !.touched = r.touched \cup m.touched]
        called == [loaded EXCEPT !.calls = loaded.calls \cup {renamer_path}]
        new_name == SubSeq(m.text, Len("rename:") + 1, Len(m.text))
    IN  IF ~IsFile(r.fs, renamer_path)
        THEN [out |-> r, dest |-> dest_path_str]
        ELSE IF ~m.ok
        THEN [out |-> [r EXCEPT !.ok = FALSE, !.err = m.err], dest |-> ""]
        ELSE IF ~StartsWith(m.text, "rename")
        THEN [out |-> [loaded EXCEPT !.ok = FALSE, !.err = "AttributeError"],
              dest |-> ""]
        ELSE IF m.text = "rename!"
        THEN [out |-> [called EXCEPT !.ok = FALSE, !.err = "RenamerRaised"],
              dest |-> ""]
        ELSE [out |-> [called EXCEPT
                          !.fs = Without(called.fs, {renamer_path}),
                          !.touched = called.touched \cup {renamer_path}],
              dest |-> Join(Parent(renamer_path), new_name)]

\* shutil.move(src, dst) of a path that is not a directory
MoveFile(r, src, dst) ==
    LET d == Norm(dst)
        real_dst == IF IsDir(r.fs, d) THEN Join(d, Name(src)) ELSE d
        moved == [q \in (DOMAIN r.fs \ {src}) \cup {real_dst} |->
                     IF q = real_dst THEN r.fs[src] ELSE r.fs[q]]
    IN  IF ~Exists(r.fs, src)
        THEN [r EXCEPT !.ok = FALSE, !.err = "FileNotFoundError"]
        ELSE IF IsDir(r.fs, d) /\ Exists(r.fs, real_dst)
        THEN [r EXCEPT !.ok = FALSE, !.err = "shutil.Error"]
        ELSE IF ~IsDir(r.fs, d) /\ (d # dst \/ ~IsDir(r.fs, Parent(d)))
        THEN [r EXCEPT !.ok = FALSE, !.err = "FileNotFoundError"]
        ELSE [r EXCEPT
                 !.fs = moved,
                 !.touched = r.touched \cup {src, real_dst},
                 !.moves = Append(r.moves,
                               [src |-> src, dst |-> real_dst, dir |-> FALSE,
                                data |-> r.fs[src].data])]

\* the directory move without the shutil.rmtree(orig) that ends it
MoveDirCopying(r, orig, dest) ==
    LET ct == CopyTree(r.fs, orig, Norm(dest), {})
    IN  IF ~IsDir(r.fs, orig)
        THEN [r EXCEPT !.ok = FALSE, !.err = "FileNotFoundError"]
        ELSE [r EXCEPT
                 !.ok = ct.ok,
                 !.err = IF ct.ok THEN "" ELSE "shutil.Error",
                 !.fs = ct.fs,
                 !.touched = r.touched \cup ct.touched,
                 !.moves = Append(r.moves,
                               [src |-> orig, dst |-> Norm(dest), dir |-> TRUE,
                                data |-> ""])]

\* shutil.copytree(orig, dest, symlinks=True, dirs_exist_ok=True) and then
\* shutil.rmtree(orig)
MoveDir(r, orig, dest) ==
    LET ct == CopyTree(r.fs, orig, Norm(dest), {})
    IN  IF ~IsDir(r.fs, orig)
        THEN [r EXCEPT !.ok = FALSE, !.err = "FileNotFoundError"]
        ELSE IF ~ct.ok
        THEN [r EXCEPT !.ok = FALSE, !.err = "shutil.Error", !.fs = ct.fs,
                       !.touched = r.touched \cup ct.touched]
        ELSE [r EXCEPT
                 !.fs = RmTree(ct.fs, orig),
                 !.touched = r.touched \cup ct.touched \cup Tree(r.fs, orig),
                 !.moves = Append(r.moves,
                               [src |-> orig, dst |-> Norm(dest), dir |-> TRUE,
                                data |-> ""])]

\* the first loop of process_renames: resolve every path, move the files,
\* collect the directories
RECURSIVE RenameFiles(_, _, _, _, _)
RenameFiles(r, c, order, i, dirs_to_move) ==
    IF i > Len(order) \/ ~r.ok THEN [out |-> r, dirs_to_move |-> dirs_to_move]
    ELSE LET g == get_rename_destination_path(r, c, order[i])
         IN  IF ~g.out.ok
             THEN [out |-> g.out, dirs_to_move |-> dirs_to_move]
             ELSE IF ~IsDir(g.out.fs, order[i])
             THEN RenameFiles(MoveFile(g.out, order[i], g.dest), c, order,
                              i + 1, dirs_to_move)
             ELSE RenameFiles(g.out, c, order, i + 1,
                              Append(dirs_to_move, <<order[i], g.dest>>))

\* the second loop of process_renames
RECURSIVE RenameDirs(_, _, _)
RenameDirs(r, dirs_to_move, i) ==
    IF i > Len(dirs_to_move) \/ ~r.ok THEN r
    ELSE RenameDirs(MoveDir(r, dirs_to_move[i][1], dirs_to_move[i][2]),
                    dirs_to_move, i + 1)

\* the sweep of process_renames leaves out the running template's own
\* directory only
RenameSweepExcluded(c) == Join(c.project_config.templates_root, c.template_name)

process_renames(f, c, order) ==
    LET first == RenameFiles(Outcome(TRUE, "", f, {}, {}, <<>>), c, order, 1, <<>>)
    IN  RenameDirs(first.out, first.dirs_to_move, 1)

-----------------------------------------------------------------------------
(* generate() *)

\* a pass order in which an initializing run skips the renewable generator
\* pass
NextPassSkipping(p, init) ==
    CASE p = "copy" -> "mako"
      [] p = "mako" -> IF init THEN "gen1" ELSE "gen"
      [] p = "gen1" -> "ren1"
      [] p = "ren1" -> "ren"
      [] p = "gen" -> "ren"
      [] p = "ren" -> "cache"
      [] p = "cache" -> "end"

\* the pass that follows pass p in generate(), "end" after the last one;
\* the init-only passes are entered only under template_config.init
NextPass(p, init) ==
    CASE p = "copy" -> "mako"
      [] p = "mako" -> IF init THEN "gen1" ELSE "gen"
      [] p = "gen1" -> "ren1"
      [] p = "ren1" -> "gen"
      [] p = "gen" -> "ren"
      [] p = "ren" -> "cache"
      [] p = "cache" -> "end"

BootstrapPath(project_config, template_name) ==
    Join(Join(project_config.templates_root, template_name), "bootstrap")

\* the Context generate() builds
Context(template_config, project_config, workspace_configs) ==
    [template_name |-> template_config.name,
     template_config |-> template_config,
     project_config |-> project_config,
     workspace_configs |-> workspace_configs,
     target_root |-> Join(project_config.project_root,
                          template_config.target_dir)]

NoCtx == [template_name |-> ""]

\* what a call has done: the passes entered, the scripts whose callable was
\* invoked, the paths created, overwritten, moved or deleted, the moves of
\* the latest pass, the exception raised, the filesystem as it was when its
\* latest pass began, and whether the call found its bootstrap directory
NoHist == [passes |-> <<>>, calls |-> {}, touched |-> {}, moves |-> <<>>,
           err |-> "", prev |-> <<>>, had_bootstrap |-> FALSE]

\* a filter that leaves out what the guard protects and nothing else
template_files_to_ignore_guard_only(f, c, src_path) ==
    is_workspace_self_defence(
        c, Rebase(src_path, BootstrapPath(c.project_config, c.template_name),
                  c.target_root))

\* a filter that leaves out the init-only entries of a run without init and
\* never asks the guard
template_files_to_ignore_unguarded(f, c, src_path) ==
    /\ ~c.template_config.init
    /\ \/ EndsWith(Name(src_path), REN_ONCE)
       \/ EndsWith(Name(src_path), RENR_ONCE)
       \/ (~IsDir(f, src_path) /\ EndsWith(Name(src_path), GEN_ONCE))

\* generate._template_files_to_ignore, for one entry of the bootstrap tree
template_files_to_ignore(f, c, src_path) ==
    LET name == Name(src_path)
        dst_path == Rebase(src_path,
                           BootstrapPath(c.project_config, c.template_name),
                           c.target_root)
    IN  IF is_workspace_self_defence(c, dst_path) THEN TRUE
        ELSE IF ~c.template_config.init
        THEN \/ EndsWith(name, REN_ONCE)
             \/ EndsWith(name, RENR_ONCE)
             \/ (~IsDir(f, src_path) /\ EndsWith(name, GEN_ONCE))
        ELSE FALSE

\* the tree copy: compute_dst_path resolves the target root strictly, so a
\* non-empty bootstrap tree and a missing target root raise before anything
\* is written
TreeCopyOutcome(f, c) ==
    LET bootstrap_path == BootstrapPath(c.project_config, c.template_name)
        entries == Tree(f, bootstrap_path) \ {bootstrap_path}
        ignored == {q \in entries : template_files_to_ignore(f, c, q)}
        ct == CopyTree(f, bootstrap_path, c.target_root, ignored)
    IN  IF entries # {} /\ IsDir(f, bootstrap_path) /\ ~Exists(f, c.target_root)
        THEN Outcome(FALSE, "FileNotFoundError", f, {}, {}, <<>>)
        ELSE Outcome(ct.ok, IF ct.ok THEN "" ELSE "shutil.Error", ct.fs, {},
                     ct.touched, <<>>)

\* sweeps that leave nothing out
SweepExcludedNothing(c) == "/nowhere"

\* the sweeps of the expansion and generator passes leave out the owning
\* project's templates root
SweepExcluded(c) == c.project_config.templates_root

\* the state after pass p with outcome r
AfterPass(p, r) ==
    /\ fs' = r.fs
    /\ hist' = [hist EXCEPT !.passes = Append(@, p),
                            !.calls = @ \cup r.calls,
                            !.touched = @ \cup r.touched,
                            !.moves = r.moves,
                            !.err = r.err,
                            !.prev = fs]
    /\ pc' = IF r.ok THEN NextPass(p, ctx.template_config.init) ELSE "raised"
    /\ UNCHANGED <<cfg, ctx, done, pending, ask, mainSt>>

TreeCopy ==
    /\ pc = "copy"
    /\ AfterPass("copy", TreeCopyOutcome(fs, ctx))

ExpandMako ==
    /\ pc = "mako"
    /\ \E order \in get_paths_by_ext(fs, ctx.target_root, TEMPLATE_MAKO_EXT,
                                     FALSE, SweepExcluded(ctx)) :
           AfterPass("mako", expand_mako_all(fs, ctx, order))

ExpandGenOnce ==
    /\ pc = "gen1"
    /\ \E order \in get_paths_by_ext(fs, ctx.target_root, GEN_ONCE, FALSE,
                                     SweepExcluded(ctx)) :
           AfterPass("gen1", expand_gen_all(fs, ctx, GEN_ONCE, order))

RenameOnce ==
    /\ pc = "ren1"
    /\ \E order \in get_paths_by_ext(fs, ctx.target_root, REN_ONCE, TRUE,
                                     RenameSweepExcluded(ctx)) :
           AfterPass("ren1", process_renames(fs, ctx, order))

ExpandGen ==
    /\ pc = "gen"
    /\ \E order \in get_paths_by_ext(fs, ctx.target_root, GEN, FALSE,
                                     SweepExcluded(ctx)) :
           AfterPass("gen", expand_gen_all(fs, ctx, GEN, order))

Rename ==
    /\ pc = "ren"
    /\ \E order \in get_paths_by_ext(fs, ctx.target_root, REN, TRUE,
                                     RenameSweepExcluded(ctx)) :
           AfterPass("ren", process_renames(fs, ctx, order))

\* the cache wipe: the __pycache__ paths found now are handed to a detached
\* process (subprocess.Popen, not waited for)
CacheCleanup ==
    /\ pc = "cache"
    /\ LET pyc_paths == Matched(fs, ctx.target_root, PYCACHE, TRUE,
                                SweepExcluded(ctx))
       IN  pending' = IF pyc_paths = {} THEN pending
                      ELSE pending \cup {pyc_paths}
    /\ hist' = [hist EXCEPT !.passes = Append(@, "cache"), !.moves = <<>>,
                            !.prev = fs]
    /\ pc' = NextPass("cache", ctx.template_config.init)
    /\ UNCHANGED <<fs, cfg, ctx, done, ask, mainSt>>

\* a detached cleanup process runs: shutil.rmtree(pyc, ignore_errors=True)
\* for each path it was given
CleanupProcess ==
    /\ \E job \in pending :
           /\ fs' = Without(fs, UNION {Tree(fs, q) : q \in job})
           /\ pending' = pending \ {job}
    /\ UNCHANGED <<cfg, pc, ctx, hist, done, ask, mainSt>>

\* generate() entered without the bootstrap_path.exists() test
EnterUnconditionally(template_config, project_config) ==
    /\ ctx' = Context(template_config, project_config, cfg)
    /\ hist' = [NoHist EXCEPT
                    !.prev = fs,
                    !.had_bootstrap =
                        Exists(fs, BootstrapPath(project_config,
                                                 template_config.name))]
    /\ pc' = "copy"

\* generate(template_name, template_config, project_config, workspace_configs)
\* is entered; nothing but the final print() runs when bootstrap is missing
Enter(template_config, project_config) ==
    /\ ctx' = Context(template_config, project_config, cfg)
    /\ hist' = [NoHist EXCEPT
                    !.prev = fs,
                    !.had_bootstrap =
                        Exists(fs, BootstrapPath(project_config,
                                                 template_config.name))]
    /\ pc' = IF Exists(fs, BootstrapPath(project_config, template_config.name))
             THEN "copy" ELSE "end"

\* the tree without the python cache directories, whose removal generate()
\* leaves to a detached process
WithoutCaches(f) ==
    [q \in {x \in DOMAIN f : Name(x) # PYCACHE} |-> f[q]]

\* generate() returns or raises to its caller
Leave ==
    /\ pc \in {"end", "raised"}
    /\ done' = Append(done,
                  [template_name |-> ctx.template_name,
                   project_root |-> ctx.project_config.project_root,
                   init |-> ctx.template_config.init,
                   status |-> IF pc = "end" THEN "returned" ELSE "raised",
                   err |-> hist.err,
                   passes |-> hist.passes,
                   calls |-> hist.calls,
                   touched |-> hist.touched,
                   had_bootstrap |-> hist.had_bootstrap,
                   tree |-> WithoutCaches(fs)])
    /\ pc' = "idle"
    /\ ctx' = NoCtx
    /\ hist' = NoHist
    /\ UNCHANGED <<fs, cfg, pending, ask, mainSt>>

-----------------------------------------------------------------------------
(* The workspace the model runs on: a top project /p with the templates A
   and B and one workspace member /p/m with the template C, laid out as
   run.py lays a workspace out (templates root <project>/acg, target
   directory "." unless configured). *)

TopTemplatesRoot == "/p/acg"
MemberTemplatesRoot == "/p/m/acg"

\* what template A's bootstrap tree may hold, by kind of pipeline entry:
\* paths relative to the bootstrap directory
Features ==
    {"mako", "gen", "gen1", "ren", "renr", "rdir", "ren1", "lit", "prot", "nest"}

FeatureNodes(k) ==
    CASE k = "mako" -> <<"f.mako", File("$-f")>> :> 0
      [] k = "gen"  -> <<"g.gen.py", File("generate:G")>> :> 0
      [] k = "gen1" -> <<"h.gen1.py", File("generate:H")>> :> 0
      [] k = "ren"  -> <<"a.rename", File("a")>> :> 0
      [] k = "renr" -> (<<"b.rename", File("b")>> :> 0)
                       @@ (<<"b.rename.py", File("rename:z")>> :> 0)
      [] k = "rdir" -> (<<"d.rename", Dir>> :> 0)
                       @@ (<<"d.rename/x.rename", File("x")>> :> 0)
      [] k = "ren1" -> <<"k.ren1", File("k")>> :> 0
      [] k = "lit"  -> <<"r", File("r")>> :> 0
      [] k = "prot" -> (<<"acg", Dir>> :> 0) @@ (<<"acg/B", Dir>> :> 0)
                       @@ (<<"acg/B/y", File("y")>> :> 0)
      [] k = "nest" -> (<<"u.rename", Dir>> :> 0)
                       @@ (<<"u.rename/v.rename", Dir>> :> 0)
                       @@ (<<"u.rename/v.rename/w", File("w")>> :> 0)
      [] k = "graise" -> <<"x.gen.py", File("generate!")>> :> 0
      [] k = "graise1" -> <<"i.gen1.py", File("generate!")>> :> 0
      [] k = "gargs" -> <<"o.gen.py", File("generate/2")>> :> 0
      [] k = "gnone" -> <<"n.gen.py", File("rename:n")>> :> 0
      [] k = "mbad" -> <<"e.mako", File("%bad")>> :> 0
      [] k = "mdir" -> (<<"t.mako", File("$-t")>> :> 0) @@ (<<"t", Dir>> :> 0)
      [] k = "ren1r" -> <<"n.ren1.py", File("rename:n")>> :> 0
      [] k = "ren1d" -> (<<"j.ren1", Dir>> :> 0)
                        @@ (<<"j.ren1/y", File("y")>> :> 0)
      [] k = "gen1d" -> (<<"e.gen1.py", Dir>> :> 0)
                        @@ (<<"e.gen1.py/t", File("t")>> :> 0)
      [] k = "prot1" -> (<<"acg", Dir>> :> 0) @@ (<<"acg/B", Dir>> :> 0)
                        @@ (<<"acg/B/q.gen1.py", File("generate:Q")>> :> 0)

\* the entries the tree copy tells apart: init-only generators and markers as
\* files and as directories, and entries aimed at template B's directory
CopyFeatures ==
    {"gen1", "ren1", "ren1r", "ren1d", "gen1d", "prot", "prot1", "lit"}

\* the nodes of a set of entries, placed below root
Placed(root, entries) ==
    [q \in {Join(root, e[1]) : e \in entries} |->
        (CHOOSE e \in entries : Join(root, e[1]) = q)[2]]

\* the workspace's directories and the source trees of B and C
BaseTree ==
    [q \in {"/p", "/p/acg", "/p/acg/A", "/p/acg/B", "/p/acg/B/bootstrap",
            "/p/m", "/p/m/acg", "/p/m/acg/C", "/p/m/acg/C/bootstrap"} |-> Dir]
    @@ ("/p/acg/config.toml" :> File("[workspace]"))
    @@ ("/p/acg/B/bootstrap/w.rename" :> File("w"))
    @@ ("/p/m/acg/C/bootstrap/s.mako" :> File("$-s"))

InitialTree(has_bootstrap, chosen) ==
    IF ~has_bootstrap THEN BaseTree
    ELSE BaseTree
         @@ ("/p/acg/A/bootstrap" :> Dir)
         @@ Placed("/p/acg/A/bootstrap",
                   UNION {DOMAIN FeatureNodes(k) : k \in chosen})

WorkspaceConfigs(a_defended, b_defended, c_defended) ==
    <<ProjectConfig("p", TopTemplatesRoot, Workspace(FALSE, <<"m">>),
                    <<TemplateEntry("A", FALSE, a_defended, "."),
                      TemplateEntry("B", FALSE, b_defended, ".")>>),
      ProjectConfig("p", MemberTemplatesRoot, NoWorkspace,
                    <<TemplateEntry("C", FALSE, c_defended, ".")>>)>>

NoAsk == [fn |-> "none"]

-----------------------------------------------------------------------------
(* The command line (run.py) *)

\* Path.resolve(strict=True): a relative path is taken from the working
\* directory, a missing path raises
Resolve(f, cwd, p) ==
    LET q == Join(cwd, p) IN [ok |-> Exists(f, q), path |-> q]

\* Path.iterdir()
IterDir(f, d) == {q \in DOMAIN f : q # d /\ Parent(q) = d}

Answer(ok, err, value) == [ok |-> ok, err |-> err, value |-> value]

is_project_target_empty(f, cwd, project_root, templates_root, members) ==
    LET entries == IterDir(f, project_root)
        roots == {Resolve(f, cwd, templates_root)}
                 \cup {Resolve(f, cwd, members[i]) : i \in DOMAIN members}
    IN  IF ~IsDir(f, project_root)
        THEN Answer(FALSE, "FileNotFoundError", FALSE)
        ELSE IF entries = {} THEN Answer(TRUE, "", TRUE)
        ELSE IF \E r \in roots : ~r.ok
        THEN Answer(FALSE, "FileNotFoundError", FALSE)
        ELSE Answer(TRUE, "", entries \subseteq {r.path : r \in roots})

\* all(is_project_target_empty(...) for config in workspace_configs): stops
\* at the first project that is not empty or raises
RECURSIVE AllProjectRootsEmpty(_, _, _, _)
AllProjectRootsEmpty(f, cwd, workspace_configs, i) ==
    IF i > Len(workspace_configs) THEN Answer(TRUE, "", TRUE)
    ELSE LET config == workspace_configs[i]
             e == is_project_target_empty(f, cwd, config.project_root,
                                          config.templates_root,
                                          config.workspace.members)
         IN  IF e.ok /\ e.value
             THEN AllProjectRootsEmpty(f, cwd, workspace_configs, i + 1)
             ELSE e

\* the topmost directory at or above start_path that holds an acg directory
find_top_project_root(f, start_path) ==
    LET parents == (IF Name(start_path) = "acg" THEN {} ELSE {start_path})
                   \cup Ancestors(start_path) \cup {"/"}
        matches == {q \in parents : IsDir(f, Join(q, "acg"))}
    IN  IF matches = {} THEN [found |-> FALSE, path |-> ""]
        ELSE [found |-> TRUE,
              path |-> CHOOSE q \in matches :
                           \A o \in matches : IsRelativeTo(o, q)]

\* a search that looks for the top-level acg directory only
find_workspace_acg_dirs_top_only(f, acg_project_root, acg_config_workspace) ==
    [ok |-> IsDir(f, Join(acg_project_root, "acg")),
     dirs |-> <<Join(acg_project_root, "acg")>>
              \o [i \in DOMAIN acg_config_workspace.members |->
                     Join(Join(acg_project_root,
                               acg_config_workspace.members[i]), "acg")]]

\* ok is FALSE where AcgDirectoryNotFoundError is raised
find_workspace_acg_dirs(f, acg_project_root, acg_config_workspace) ==
    LET members == acg_config_workspace.members
        acg_dir(i) == Join(Join(acg_project_root, members[i]), "acg")
    IN  [ok |-> /\ IsDir(f, Join(acg_project_root, "acg"))
                /\ \A i \in DOMAIN members : IsDir(f, acg_dir(i)),
         dirs |-> <<Join(acg_project_root, "acg")>>
                  \o [i \in DOMAIN members |-> acg_dir(i)]]

\* the templates of the workspace in the order main() visits them
RECURSIVE TemplatesInOrder(_, _)
TemplatesInOrder(workspace_configs, i) ==
    IF i > Len(workspace_configs) THEN <<>>
    ELSE workspace_configs[i].templates
         \o TemplatesInOrder(workspace_configs, i + 1)

\* how a main() invocation ended: "fatal" is return 1, "raised" an uncaught
\* exception; init is the value computed for the template of the generate()
\* call reached, ran the templates whose generate() call was entered
MainOutcome(at, err, template, init, ran) ==
    [at |-> at, err |-> err, template |-> template, init |-> init,
     ran |-> ran]

NoMain == MainOutcome("none", "", "", FALSE, <<>>)

\* main(), run in the working directory cwd with the configuration files
\* loading as workspace_configs.  generate() takes no init parameter, so the
\* first call main() makes, generate(name, config, project_config,
\* workspace_configs, init=init), raises TypeError before the body of
\* generate() is entered.
main(f, workspace_configs, cwd) ==
    LET top_project_root == find_top_project_root(f, cwd)
        top_project_config == workspace_configs[1]
        top_workspace_init == /\ top_project_config.workspace.has
                              /\ top_project_config.workspace.init
        acg_dirs == find_workspace_acg_dirs(f, top_project_root.path,
                                            top_project_config.workspace)
        nested == \E i \in 2..Len(workspace_configs) :
                      workspace_configs[i].workspace.has
        is_all_project_roots_empty ==
            AllProjectRootsEmpty(f, cwd, workspace_configs, 1)
        templates == TemplatesInOrder(workspace_configs, 1)
    IN  IF ~top_project_root.found
        THEN MainOutcome("fatal", "not a autocodegen repository", "", FALSE,
                         <<>>)
        ELSE IF ~acg_dirs.ok
        THEN MainOutcome("fatal", "AcgDirectoryNotFoundError", "", FALSE, <<>>)
        ELSE IF nested
        THEN MainOutcome("fatal", "nested workspaces", "", FALSE, <<>>)
        ELSE IF ~is_all_project_roots_empty.ok
        THEN MainOutcome("raised", is_all_project_roots_empty.err, "", FALSE,
                         <<>>)
        ELSE IF templates = <<>>
        THEN MainOutcome("returned", "", "", FALSE, <<>>)
        ELSE MainOutcome("raised", "TypeError", templates[1].name,
                         \/ is_all_project_roots_empty.value
                         \/ top_workspace_init
                         \/ templates[1].init,
                         <<>>)

\* the working directories main() is started in
WorkingDirs == {"/p", "/p/m", "/q"}

InitWith(features) ==
    /\ \E has_bootstrap \in BOOLEAN :
       \E chosen \in SUBSET features :
           /\ Cardinality(chosen) <= MaxFeatures
           /\ has_bootstrap \/ chosen = {}
           /\ fs = InitialTree(has_bootstrap, chosen)
    /\ \E b_defended \in BOOLEAN :
           cfg = WorkspaceConfigs(TRUE, b_defended, TRUE)
    /\ pc = "idle"
    /\ ctx = NoCtx
    /\ hist = NoHist
    /\ done = <<>>
    /\ pending = {}
    /\ ask = NoAsk
    /\ mainSt = NoMain

Init == InitWith(Features)

\* a caller runs generate() for template A of the top project, with the
\* init flag its configuration holds at that time
CallGenerate ==
    /\ pc = "idle"
    /\ Len(done) < MaxRuns
    /\ \E init \in BOOLEAN :
           Enter([cfg[1].templates[1] EXCEPT !.init = init], cfg[1])
    /\ mainSt' = NoMain
    /\ UNCHANGED <<fs, cfg, done, pending, ask>>

\* the command line is run in one of the working directories
Main ==
    /\ pc = "idle"
    /\ \E cwd \in WorkingDirs : mainSt' = main(fs, cfg, cwd)
    /\ UNCHANGED <<fs, cfg, pc, ctx, hist, done, pending, ask>>

Next ==
    \/ Main
    \/ CallGenerate
    \/ TreeCopy
    \/ ExpandMako
    \/ ExpandGenOnce
    \/ RenameOnce
    \/ ExpandGen
    \/ Rename
    \/ CacheCleanup
    \/ CleanupProcess
    \/ Leave

Spec == Init /\ [][Next]_vars

\* the same calls over bootstrap trees of the entries the tree copy tells
\* apart
InitCopy == InitWith(CopyFeatures)

SpecCopy == InitCopy /\ [][Next]_vars

\* the same calls in a workspace whose member template C, which is defended,
\* holds an init-only generator in its own bootstrap tree
OnceFeatures == {"gen1", "ren", "lit", "prot1"}

OnceTree ==
    "/p/m/acg/C/bootstrap/c.gen1.py" :> File("generate:C")

InitOnce ==
    /\ \E chosen \in SUBSET OnceFeatures :
           /\ Cardinality(chosen) <= MaxFeatures
           /\ fs = OnceTree @@ InitialTree(TRUE, chosen)
    /\ \E b_defended \in BOOLEAN :
           cfg = WorkspaceConfigs(TRUE, b_defended, TRUE)
    /\ pc = "idle"
    /\ ctx = NoCtx
    /\ hist = NoHist
    /\ done = <<>>
    /\ pending = {}
    /\ ask = NoAsk
    /\ mainSt = NoMain

SpecOnce == InitOnce /\ [][Next]_vars

\* the same calls with template A aimed at the project root or at a
\* directory below it, which may be missing or may hold files already
TargetFeatures == {"lit", "mako", "gen", "rdir"}

TargetDirs == {".", "out", "out/deep"}

TargetTrees ==
    {<<>>,
     "/p/out" :> Dir,
     ("/p/out" :> Dir) @@ ("/p/out/r" :> File("old"))
         @@ ("/p/out/keep" :> File("keep")),
     ("/p/out" :> Dir) @@ ("/p/out/deep" :> Dir)
         @@ ("/p/out/deep/keep" :> File("keep"))}

InitTarget ==
    /\ \E chosen \in SUBSET TargetFeatures :
       \E present \in TargetTrees :
           /\ Cardinality(chosen) <= MaxFeatures
           /\ fs = IF present = <<>> THEN InitialTree(TRUE, chosen)
                   ELSE present @@ InitialTree(TRUE, chosen)
    /\ \E target_dir \in TargetDirs :
           cfg = [WorkspaceConfigs(TRUE, TRUE, TRUE)
                     EXCEPT ![1].templates[1].target_dir = target_dir]
    /\ pc = "idle"
    /\ ctx = NoCtx
    /\ hist = NoHist
    /\ done = <<>>
    /\ pending = {}
    /\ ask = NoAsk
    /\ mainSt = NoMain

SpecTarget == InitTarget /\ [][Next]_vars

\* the same calls over bootstrap trees holding scripts and templates that
\* fail: a generator that raises, generators with a wrong interface, a
\* template that does not render, a template whose output path is a
\* directory; the target root may hold a template in a directory that cannot
\* be written
FailFeatures ==
    {"mako", "gen", "gen1", "graise", "graise1", "gargs", "gnone", "mbad",
     "mdir", "lit"}

LockedTree ==
    ("/p/ro" :> ReadOnlyDir) @@ ("/p/ro/v.mako" :> File("$-v"))

InitFail ==
    /\ \E chosen \in SUBSET FailFeatures :
       \E locked \in BOOLEAN :
           /\ Cardinality(chosen) <= MaxFeatures
           /\ fs = IF locked THEN LockedTree @@ InitialTree(TRUE, chosen)
                   ELSE InitialTree(TRUE, chosen)
    /\ \E b_defended \in BOOLEAN :
           cfg = WorkspaceConfigs(TRUE, b_defended, TRUE)
    /\ pc = "idle"
    /\ ctx = NoCtx
    /\ hist = NoHist
    /\ done = <<>>
    /\ pending = {}
    /\ ask = NoAsk
    /\ mainSt = NoMain

SpecFail == InitFail /\ [][Next]_vars

-----------------------------------------------------------------------------
(* The self-defence guard on its own: it is asked about one path at a time,
   for every choice of the self_defence flags of the three templates and
   with the workspace's projects in either order *)

GuardPaths ==
    {"/p", "/p/x", "/p/acg", "/p/acgx", "/p/acg/config.toml", "/p/acg/A",
     "/p/acg/A/bootstrap/f", "/p/acg/AB", "/p/acg/B/x", "/p/acg/Z/y",
     "/p/m/x", "/p/m/acg", "/p/m/acg/C/b", "/p/m/acg/n", "/q"}

InitGuard ==
    /\ \E a_defended \in BOOLEAN, b_defended \in BOOLEAN,
          c_defended \in BOOLEAN :
           cfg = WorkspaceConfigs(a_defended, b_defended, c_defended)
    /\ fs = BaseTree
    /\ pc = "guard"
    /\ ctx = NoCtx
    /\ hist = NoHist
    /\ done = <<>>
    /\ pending = {}
    /\ ask = NoAsk
    /\ mainSt = NoMain

\* is_project_self_defence(project_config, target_path) is called
AskProject ==
    /\ pc = "guard"
    /\ \E i \in DOMAIN cfg, target_path \in GuardPaths :
           ask' = [fn |-> "project", configs |-> <<cfg[i]>>,
                   path |-> target_path,
                   result |-> is_project_self_defence(cfg[i], target_path)]
    /\ UNCHANGED <<fs, cfg, pc, ctx, hist, done, pending, mainSt>>

\* is_workspace_self_defence(ctx, target_path) is called, the context
\* holding the workspace's projects in one order or the other
AskWorkspace ==
    /\ pc = "guard"
    /\ \E workspace_configs \in {cfg, <<cfg[2], cfg[1]>>},
          target_path \in GuardPaths :
           ask' = [fn |-> "workspace", configs |-> workspace_configs,
                   path |-> target_path,
                   result |-> is_workspace_self_defence(
                                  Context(cfg[1].templates[1], cfg[1],
                                          workspace_configs),
                                  target_path)]
    /\ UNCHANGED <<fs, cfg, pc, ctx, hist, done, pending, mainSt>>

NextGuard == AskProject \/ AskWorkspace

SpecGuard == InitGuard /\ [][NextGuard]_vars

-----------------------------------------------------------------------------
(* The command line on its own: main() is started once, in one working
   directory, over a workspace that may lack an acg directory, may have a
   member that declares a workspace of its own, and may hold entries of its
   own in the project roots *)

\* what the project roots may hold besides acg and the member
RootExtras ==
    ("/p/x" :> File("x")) @@ ("/p/m/y" :> File("y")) @@ ("/p/m/m" :> Dir)

Faults == {"none", "top", "member", "nested"}

\* the workspace with one configuration fault
FaultyTree(fault, f) ==
    CASE fault = "top" -> Without(f, Tree(f, "/p/acg") \cup Tree(f, "/p/m/acg"))
      [] fault = "member" -> Without(f, Tree(f, "/p/m/acg"))
      [] fault = "nested" -> f @@ ("/p/m/acg/config.toml" :> File("[workspace]"))
      [] OTHER -> f

FaultyConfigs(fault, workspace_configs) ==
    IF fault = "nested"
    THEN [workspace_configs EXCEPT ![2].workspace = Workspace(FALSE, <<>>)]
    ELSE workspace_configs

InitMain ==
    /\ \E fault \in Faults :
       \E extras \in SUBSET DOMAIN RootExtras :
           /\ fs = FaultyTree(fault, [q \in extras |-> RootExtras[q]] @@ BaseTree)
           /\ cfg = FaultyConfigs(fault, WorkspaceConfigs(TRUE, TRUE, TRUE))
    /\ \E cwd \in WorkingDirs : ask = [fn |-> "cwd", cwd |-> cwd]
    /\ pc = "main"
    /\ ctx = NoCtx
    /\ hist = NoHist
    /\ done = <<>>
    /\ pending = {}
    /\ mainSt = NoMain

\* main(), started in the working directory of the behaviour
RunMain ==
    /\ pc = "main"
    /\ mainSt = NoMain
    /\ mainSt' = main(fs, cfg, ask.cwd)
    /\ hist' = [hist EXCEPT !.prev = fs]
    /\ UNCHANGED <<fs, cfg, pc, ctx, done, pending, ask>>

\* is_project_target_empty is called for one project of the workspace, in
\* the working directory of the behaviour
CheckEmpty ==
    /\ pc = "main"
    /\ ask.fn = "cwd"
    /\ \E i \in DOMAIN cfg :
           ask' = [fn |-> "empty", cwd |-> ask.cwd, project |-> i,
                   answer |-> is_project_target_empty(
                                  fs, ask.cwd, cfg[i].project_root,
                                  cfg[i].templates_root,
                                  cfg[i].workspace.members)]
    /\ UNCHANGED <<fs, cfg, pc, ctx, hist, done, pending, mainSt>>

NextMain == RunMain \/ CheckEmpty

SpecMain == InitMain /\ [][NextMain]_vars

-----------------------------------------------------------------------------
(* Loading a configuration (config.py).  The data is what tomllib hands
   over: the project name under [autocodegen] ("" when absent) and the
   templates in the order of the file, each a name with the keys the file
   sets for it; the values are kept as the file writes them. *)

\* the keys a template may set, bootstrap.* being the keys of its
\* [templates.<name>.bootstrap] table
RawSettingsPool ==
    {<<>>,
     "bootstrap.init" :> "true",
     ("bootstrap.self_defence" :> "false") @@ ("bootstrap.target_dir" :> "out"),
     "project_name" :> "q"}

\* ProjectConfigTemplate and ProjectConfigTemplateBootstrap with their
\* defaults, as model_validate fills them in
ValidatedTemplate(name, raw) ==
    [name |-> name,
     project_name |-> raw["project_name"],
     bootstrap |->
        [target_dir |-> IF "bootstrap.target_dir" \in DOMAIN raw
                        THEN raw["bootstrap.target_dir"] ELSE ".",
         init |-> IF "bootstrap.init" \in DOMAIN raw
                  THEN raw["bootstrap.init"] = "true" ELSE FALSE,
         self_defence |-> IF "bootstrap.self_defence" \in DOMAIN raw
                          THEN raw["bootstrap.self_defence"] = "true"
                          ELSE TRUE]]

\* sorted(templates_root.iterdir()), over the names the model uses
NameOrder == <<"A", "B", "config.toml">>

RECURSIVE SortedFrom(_, _)
SortedFrom(names, i) ==
    IF i > Len(NameOrder) THEN <<>>
    ELSE (IF NameOrder[i] \in names THEN <<NameOrder[i]>> ELSE <<>>)
         \o SortedFrom(names, i + 1)

\* the templates of the data followed by one entry for every directory of
\* templates_root the data does not name, every entry given the project name
\* where it sets none
ProcessedTemplates(f, data, templates_root, project_name) ==
    LET named == {data.templates[i].name : i \in DOMAIN data.templates}
        items == SortedFrom({Name(q) : q \in IterDir(f, templates_root)}, 1)
        from_dirs == SelectSeq(items,
                         LAMBDA n : IsDir(f, Join(templates_root, n))
                                    /\ n \notin named)
        all == data.templates
               \o [i \in DOMAIN from_dirs |->
                      [name |-> from_dirs[i],
                       raw |-> "bootstrap.target_dir" :> "."]]
    IN  [i \in DOMAIN all |->
            [name |-> all[i].name,
             raw |-> IF "project_name" \in DOMAIN all[i].raw THEN all[i].raw
                     ELSE all[i].raw @@ ("project_name" :> project_name)]]

\* ProjectConfig.load working on the caller's data instead of a copy
ProjectConfig_load_in_place(f, data, templates_root, project_name_default) ==
    LET project_name == IF data.project_name # "" THEN data.project_name
                        ELSE IF project_name_default # ""
                        THEN project_name_default
                        ELSE Name(Parent(templates_root))
        processed == ProcessedTemplates(f, data, templates_root, project_name)
    IN  [config |->
            [project_name |-> project_name,
             project_root |-> Parent(templates_root),
             templates_root |-> templates_root,
             templates |-> [i \in DOMAIN processed |->
                              ValidatedTemplate(processed[i].name,
                                                processed[i].raw)]],
         data |-> [data EXCEPT !.templates = processed]]

\* ProjectConfig.load(data, templates_root=..., project_name_default=...):
\* the configuration, and the caller's data after the call
ProjectConfig_load(f, data, templates_root, project_name_default) ==
    LET project_name == IF data.project_name # "" THEN data.project_name
                        ELSE IF project_name_default # ""
                        THEN project_name_default
                        ELSE Name(Parent(templates_root))
        processed == ProcessedTemplates(f, data, templates_root, project_name)
    IN  [config |->
            [project_name |-> project_name,
             project_root |-> Parent(templates_root),
             templates_root |-> templates_root,
             templates |-> [i \in DOMAIN processed |->
                              ValidatedTemplate(processed[i].name,
                                                processed[i].raw)]],
         data |-> data]

\* the configuration data of the behaviour: template A, a template N that
\* has no directory, or both, in either order
ConfiguredTemplates ==
    {<<>>}
    \cup {<<[name |-> n, raw |-> r]>> : n \in {"A", "N"}, r \in RawSettingsPool}
    \cup {<<[name |-> no[1], raw |-> r], [name |-> no[2], raw |-> s]>> :
             no \in {<<"A", "N">>, <<"N", "A">>},
             r \in RawSettingsPool, s \in RawSettingsPool}

InitLoad ==
    /\ \E entries \in SUBSET {"A", "B", "config.toml"} :
           fs = [q \in {"/p", "/p/acg"} |-> Dir]
                @@ [q \in {Join("/p/acg", n) : n \in entries \ {"config.toml"}}
                      |-> Dir]
                @@ [q \in {Join("/p/acg", n) : n \in entries \cap {"config.toml"}}
                      |-> File("")]
    /\ \E templates \in ConfiguredTemplates, project_name \in {"", "p"} :
           ask = [fn |-> "data",
                  data |-> [project_name |-> project_name,
                            templates |-> templates]]
    /\ cfg = <<>>
    /\ pc = "load"
    /\ ctx = NoCtx
    /\ hist = NoHist
    /\ done = <<>>
    /\ pending = {}
    /\ mainSt = NoMain

\* the data of the behaviour is loaded for the templates root /p/acg
Load ==
    /\ pc = "load"
    /\ ask.fn = "data"
    /\ LET loaded == ProjectConfig_load(fs, ask.data, TopTemplatesRoot, "")
       IN  ask' = [fn |-> "load", data |-> ask.data,
                   data_after |-> loaded.data, config |-> loaded.config]
    /\ UNCHANGED <<fs, cfg, pc, ctx, hist, done, pending, mainSt>>

NextLoad == Load

SpecLoad == InitLoad /\ [][NextLoad]_vars

-----------------------------------------------------------------------------
(* The suffix tests on their own: file names put together from a stem and
   the pieces of the pipeline suffixes are classified *)

\* TEMPLATE_MAKO_EXT and the members of AcgExt
PipelineSuffixes ==
    {TEMPLATE_MAKO_EXT, GEN, GEN_ONCE, REN, RENR, REN_ONCE, RENR_ONCE, FRA}

\* the suffixes generate() sweeps the target for: expand_mako_all,
\* expand_gen_all (GenExt) and process_renames (RenExt)
SweepSuffixes == {TEMPLATE_MAKO_EXT, GEN, GEN_ONCE, REN, REN_ONCE}

\* the suffixes of the set that file_name.endswith(ext) holds for
SuffixesContained(file_name, suffixes) ==
    {ext \in suffixes : Len(ext) <= Len(file_name)
                        /\ \E i \in 1..(Len(file_name) - Len(ext) + 1) :
                               SubSeq(file_name, i, i + Len(ext) - 1) = ext}

SuffixesMatching(file_name, suffixes) ==
    {ext \in suffixes : EndsWith(file_name, ext)}

NamePieces == {"a", ".py", ".mako", ".gen", ".gen1", ".rename", ".ren1", ".fra"}

RECURSIVE NamesOf(_)
NamesOf(n) ==
    IF n = 0 THEN {""}
    ELSE {head \o piece : head \in NamesOf(n - 1), piece \in NamePieces}

FileNames == UNION {NamesOf(n) : n \in 1..MaxSegments}

InitClassify ==
    /\ fs = BaseTree
    /\ cfg = WorkspaceConfigs(TRUE, TRUE, TRUE)
    /\ pc = "classify"
    /\ ctx = NoCtx
    /\ hist = NoHist
    /\ done = <<>>
    /\ pending = {}
    /\ \E file_name \in FileNames : ask = [fn |-> "name", name |-> file_name]
    /\ mainSt = NoMain

\* the file name of the behaviour meets the suffix tests of the sweeps
Classify ==
    /\ pc = "classify"
    /\ ask.fn = "name"
    /\ ask' = [fn |-> "classify", name |-> ask.name,
               kinds |-> SuffixesMatching(ask.name, PipelineSuffixes),
               sweeps |-> SuffixesMatching(ask.name, SweepSuffixes)]
    /\ UNCHANGED <<fs, cfg, pc, ctx, hist, done, pending, mainSt>>

NextClassify == Classify

SpecClassify == InitClassify /\ [][NextClassify]_vars

-----------------------------------------------------------------------------
(* Properties of the pipeline *)

\* the template directories a run of template_name in project_config is
\* not to write to: those of every other template of the workspace that
\* declares self_defence
DefendedFromRun(project_config, template_name) ==
    {Join(cfg[i].templates_root, cfg[i].templates[j].name) :
        <<i, j>> \in {x \in (DOMAIN cfg) \X (1..2) :
                         /\ x[2] \in DOMAIN cfg[x[1]].templates
                         /\ cfg[x[1]].templates[x[2]].self_defence
                         /\ ~(/\ cfg[x[1]].templates_root
                                    = project_config.templates_root
                               /\ cfg[x[1]].templates[x[2]].name
                                    = template_name)}}

\* C1: no generation run creates, overwrites, moves or deletes a path under
\* the directory of another template of the workspace that declares
\* self_defence = true.
C1_SelfDefenceInvariant ==
    pc # "idle" =>
        \A q \in hist.touched :
            \A d \in DefendedFromRun(ctx.project_config, ctx.template_name) :
                ~IsRelativeTo(q, d)

\* C2: when main() has run on a workspace whose project roots were all
\* empty, the output h of the init-only generator h.gen1.py of template A's
\* bootstrap tree exists in the target; and a run without init enters no
\* init-only pass, calls no init-only generator and touches no init-only
\* marker.
C2_InitArtifactsExactlyOnce ==
    /\ (/\ mainSt.at # "none"
        /\ mainSt.init
        /\ IsFile(fs, "/p/acg/A/bootstrap/h.gen1.py")) =>
           IsFile(fs, "/p/h")
    /\ \A i \in DOMAIN done :
           ~done[i].init =>
               /\ \A k \in DOMAIN done[i].passes :
                      done[i].passes[k] \notin {"gen1", "ren1"}
               /\ \A q \in done[i].calls \cup done[i].touched :
                      /\ ~EndsWith(q, GEN_ONCE)
                      /\ ~EndsWith(q, REN_ONCE)
                      /\ ~EndsWith(q, RENR_ONCE)

\* the renewable sources left in a tree outside the templates root
RenewableSourcesLeft(tree, templates_root) ==
    {q \in DOMAIN tree : /\ EndsWith(q, GEN) \/ EndsWith(q, REN)
                         /\ ~IsRelativeTo(q, templates_root)}

\* C3: a run that completes leaves no path ending in .gen.py or .rename
\* under the target root outside the templates root, and a completed run
\* without init that follows a completed run over the same bootstrap tree
\* leaves the same tree content as that run did.
C3_RenewableIdempotence ==
    /\ \A i \in DOMAIN done :
           (done[i].status = "returned" /\ done[i].had_bootstrap) =>
               RenewableSourcesLeft(done[i].tree, TopTemplatesRoot) = {}
    /\ \A i \in DOMAIN done :
           (/\ i > 1
            /\ done[i - 1].status = "returned"
            /\ done[i].status = "returned"
            /\ done[i].had_bootstrap
            /\ ~done[i].init) =>
               done[i].tree = done[i - 1].tree

\* two consecutive completed runs over a bootstrap tree with a generator
\* script and a rename marker, the second without init
C3_Witness ==
    \E i \in DOMAIN done :
        /\ i > 1
        /\ done[i - 1].status = "returned"
        /\ done[i].status = "returned"
        /\ done[i].had_bootstrap
        /\ ~done[i].init
        /\ done[i].calls # {}
        /\ \E q \in done[i].touched : EndsWith(q, REN)

Last(seq) == seq[Len(seq)]

IsPrefix(a, b) == Len(a) <= Len(b) /\ SubSeq(b, 1, Len(a)) = a

\* the passes of a run that finds its bootstrap directory
ExpectedPasses(init) ==
    IF init
    THEN <<"copy", "mako", "gen1", "ren1", "gen", "ren", "cache">>
    ELSE <<"copy", "mako", "gen", "ren", "cache">>

\* C4: the passes a run has entered are at every moment a prefix of tree
\* copy, expansion, (init-only generator, init-only rename, when the run is
\* initializing), renewable generator, renewable rename, cache cleanup; a
\* run that finds its bootstrap directory and returns has made them all.
C4_PassOrdering ==
    /\ pc # "idle" =>
           /\ IsPrefix(hist.passes, ExpectedPasses(ctx.template_config.init))
           /\ (pc = "end" /\ hist.had_bootstrap) =>
                  hist.passes = ExpectedPasses(ctx.template_config.init)
           /\ pc \in {"copy", "mako", "gen1", "ren1", "gen", "ren", "cache"} =>
                  /\ hist.had_bootstrap
                  /\ ExpectedPasses(ctx.template_config.init)
                         [Len(hist.passes) + 1] = pc
    /\ \A i \in DOMAIN done :
           /\ IsPrefix(done[i].passes, ExpectedPasses(done[i].init))
           /\ (done[i].status = "returned" /\ done[i].had_bootstrap) =>
                  done[i].passes = ExpectedPasses(done[i].init)

\* an initializing run and a run without init have both returned
C4_Witness ==
    \E i, j \in DOMAIN done :
        /\ done[i].status = "returned" /\ done[i].init
        /\ Len(done[i].passes) = 7
        /\ done[j].status = "returned" /\ ~done[j].init
        /\ Len(done[j].passes) = 5

\* the renewable rename pass has just completed
RenamePassDone ==
    /\ pc = "cache"
    /\ hist.passes # <<>>
    /\ Last(hist.passes) = "ren"

\* C5: in a rename pass no file move follows a directory move; and when the
\* pass has completed, a marked file that lay in a marked directory is found,
\* with its content, at <renamed directory>/<renamed file>, and nothing is
\* left at the directory's former path.
C5_RenameOrdering ==
    /\ \A i, j \in DOMAIN hist.moves :
           (i < j /\ hist.moves[i].dir) => hist.moves[j].dir
    /\ RenamePassDone =>
           \A d, x \in DOMAIN hist.prev :
               (/\ IsDir(hist.prev, d) /\ EndsWith(d, REN)
                /\ IsFile(hist.prev, x) /\ EndsWith(x, REN)
                /\ Parent(x) = d
                /\ IsRelativeTo(d, ctx.target_root)
                /\ ~IsRelativeTo(d, RenameSweepExcluded(ctx))) =>
                   \E m, n \in DOMAIN hist.moves :
                       /\ hist.moves[m].src = x /\ ~hist.moves[m].dir
                       /\ hist.moves[n].src = d /\ hist.moves[n].dir
                       /\ Name(hist.moves[m].dst) = RemoveSuffix(Name(x), REN)
                       /\ hist.moves[n].dst = RemoveSuffix(d, REN)
                       /\ IsFile(fs, Join(hist.moves[n].dst,
                                          Name(hist.moves[m].dst)))
                       /\ fs[Join(hist.moves[n].dst,
                                  Name(hist.moves[m].dst))].data
                              = hist.prev[x].data
                       /\ Tree(fs, d) = {}

\* a completed rename pass has brought d.rename/x.rename to d/x
C5_Witness ==
    /\ RenamePassDone
    /\ IsFile(hist.prev, "/p/d.rename/x.rename")
    /\ IsFile(fs, "/p/d/x")
    /\ Len(hist.moves) >= 2

\* the name a renamer script returns
ReturnedName(text) == SubSeq(text, Len("rename:") + 1, Len(text))

\* C6: when the renewable rename pass has completed, every marker it found
\* was moved: one with no sibling <name>.rename.py to the path without the
\* marker, one with such a sibling to <directory of the renamer>/<returned
\* name>, and that renamer no longer exists.
C6_RenamerResolution ==
    RenamePassDone =>
        \A q \in Matched(hist.prev, ctx.target_root, REN, TRUE,
                          RenameSweepExcluded(ctx)) :
            LET renamer == RemoveSuffix(q, REN) \o RENR
            IN  \E i \in DOMAIN hist.moves :
                    /\ hist.moves[i].src = q
                    /\ IF IsFile(hist.prev, renamer)
                       THEN /\ hist.moves[i].dst
                                  = Join(Parent(renamer),
                                         ReturnedName(hist.prev[renamer].data))
                            /\ ~Exists(fs, renamer)
                       ELSE hist.moves[i].dst = RemoveSuffix(q, REN)

\* a completed rename pass has moved a.rename to a and, by its renamer
\* returning "z", b.rename to z
C6_Witness ==
    /\ RenamePassDone
    /\ IsFile(hist.prev, "/p/b.rename.py")
    /\ hist.prev["/p/b.rename.py"].data = "rename:z"
    /\ \E i, j \in DOMAIN hist.moves :
           /\ hist.moves[i].src = "/p/a.rename" /\ hist.moves[i].dst = "/p/a"
           /\ hist.moves[j].src = "/p/b.rename" /\ hist.moves[j].dst = "/p/z"
    /\ IsFile(fs, "/p/a") /\ IsFile(fs, "/p/z")
    /\ ~Exists(fs, "/p/b.rename.py")

\* C9: a main() invocation that reaches a template for which the workspace
\* init flag, the template's own init flag or the emptiness of every project
\* root asks for an initializing run enters generate() for that template,
\* and so runs its init-only passes.
C9_InitializingDetermination ==
    (mainSt.at # "none" /\ mainSt.template # "" /\ mainSt.init) =>
        \E k \in DOMAIN mainSt.ran : mainSt.ran[k] = mainSt.template

\* C10: a run that does not find <templates_root>/<template_name>/bootstrap
\* goes straight to its end: it enters no pass (so schedules no cache
\* cleanup), invokes no generator or renamer, creates, overwrites, moves or
\* deletes nothing, and returns without an error.
C10_MissingBootstrapNoOp ==
    /\ (pc # "idle" /\ ~hist.had_bootstrap) =>
           /\ pc = "end"
           /\ hist.passes = <<>>
           /\ hist.calls = {}
           /\ hist.touched = {}
           /\ hist.err = ""
           /\ fs = hist.prev
    /\ \A i \in DOMAIN done :
           ~done[i].had_bootstrap =>
               /\ done[i].status = "returned"
               /\ done[i].err = ""
               /\ done[i].passes = <<>>
               /\ done[i].calls = {}
               /\ done[i].touched = {}

\* a run over a template without a bootstrap directory has returned
C10_Witness ==
    \E i \in DOMAIN done :
        /\ ~done[i].had_bootstrap
        /\ done[i].status = "returned"
        /\ ~Exists(fs, "/p/acg/A/bootstrap")

\* C7: is_project_self_defence answers FALSE for the templates root itself,
\* the self_defence flag of the declared template whose directory holds the
\* path, TRUE for a path in the templates root that no declared template's
\* directory holds, and FALSE for a path outside the templates root.
C7_ProjectGuardDecision ==
    ask.fn = "project" =>
        LET c == ask.configs[1]
            p == ask.path
            root == c.templates_root
            inside(d) == p = d \/ StartsWith(p, d \o "/")
            owners == {i \in DOMAIN c.templates :
                          inside(root \o "/" \o c.templates[i].name)}
        IN  ask.result =
                IF p = root THEN FALSE
                ELSE IF ~inside(root) THEN FALSE
                ELSE IF owners = {} THEN TRUE
                ELSE \A i \in owners : c.templates[i].self_defence

\* the guard of the top project was asked about a file of the templates
\* root that belongs to no template, and protects it
C7_Witness ==
    /\ ask.fn = "project"
    /\ ask.configs[1].templates_root = TopTemplatesRoot
    /\ ask.path = "/p/acg/config.toml"
    /\ ask.result

\* C8: is_workspace_self_defence answers TRUE exactly when
\* is_project_self_defence does for at least one project of
\* ctx.workspace_configs, whatever their order.
C8_WorkspaceGuardIsOr ==
    ask.fn = "workspace" =>
        ask.result =
            (\E i \in DOMAIN ask.configs :
                 is_project_self_defence(ask.configs[i], ask.path))

\* the workspace guard protects a path that only the second project of the
\* list protects
C8_Witness ==
    /\ ask.fn = "workspace"
    /\ Len(ask.configs) = 2
    /\ ~is_project_self_defence(ask.configs[1], ask.path)
    /\ is_project_self_defence(ask.configs[2], ask.path)
    /\ ask.result

C12_InitOnlyRenameResolution ==
    (pc # "idle" /\ hist.passes # <<>> /\ Last(hist.passes) = "ren1") =>
        \A q \in Matched(hist.prev, ctx.target_root, REN_ONCE, TRUE,
                          RenameSweepExcluded(ctx)) :
            LET renamer == RemoveSuffix(q, REN_ONCE) \o RENR_ONCE
            IN  /\ pc # "raised"
                /\ \E i \in DOMAIN hist.moves :
                       /\ hist.moves[i].src = q
                       /\ IF IsFile(hist.prev, renamer)
                          THEN /\ hist.moves[i].dst
                                     = Join(Parent(renamer),
                                            ReturnedName(
                                                hist.prev[renamer].data))
                               /\ ~Exists(fs, renamer)
                          ELSE hist.moves[i].dst = RemoveSuffix(q, REN_ONCE)

\* the entries of the running template's bootstrap tree, as the latest pass
\* found them
BootstrapEntries ==
    Tree(hist.prev, BootstrapPath(ctx.project_config, ctx.template_name))
        \ {BootstrapPath(ctx.project_config, ctx.template_name)}

\* where the tree copy puts a bootstrap entry
CopyDestination(q) ==
    Rebase(q, BootstrapPath(ctx.project_config, ctx.template_name),
           ctx.target_root)

\* an entry that only an initializing run copies
IsInitOnlyEntry(q) ==
    \/ EndsWith(Name(q), REN_ONCE)
    \/ EndsWith(Name(q), RENR_ONCE)
    \/ (~IsDir(hist.prev, q) /\ EndsWith(Name(q), GEN_ONCE))

\* the guard protects the destination of the entry or of a directory above it
GuardedEntry(q) ==
    \E a \in BootstrapEntries :
        /\ IsRelativeTo(q, a)
        /\ is_workspace_self_defence(ctx, CopyDestination(a))

TreeCopyJustRan ==
    pc # "idle" /\ hist.passes = <<"copy">>

\* C13 (Non-initializing copy exclusion): the tree copy of a run without init
\* writes no bootstrap entry whose name ends in .ren1 or .ren1.py, file or
\* directory, and no non-directory entry whose name ends in .gen1.py: the
\* destination is not written and is what it was before the copy. The tree
\* copy of a run with init puts each such entry at its destination, with the
\* entry's content, unless the guard protects the destination of the entry or
\* of a directory above it.
C13_NonInitCopyExclusion ==
    TreeCopyJustRan =>
        \A q \in BootstrapEntries :
            IsInitOnlyEntry(q) =>
                IF ctx.template_config.init
                THEN GuardedEntry(q)
                     \/ /\ Exists(fs, CopyDestination(q))
                        /\ fs[CopyDestination(q)] = hist.prev[q]
                        /\ IsFile(hist.prev, q) =>
                               CopyDestination(q) \in hist.touched
                ELSE /\ CopyDestination(q) \notin hist.touched
                     /\ Exists(fs, CopyDestination(q))
                            = Exists(hist.prev, CopyDestination(q))
                     /\ Exists(fs, CopyDestination(q)) =>
                            fs[CopyDestination(q)]
                                = hist.prev[CopyDestination(q)]

\* a run without init has left a .ren1 directory out of the copy while it
\* copied the directory named e.gen1.py, or a run with init has copied an
\* init-only generator below the undefended directory of template B
C13_Witness ==
    /\ TreeCopyJustRan
    /\ \/ /\ ~ctx.template_config.init
          /\ IsDir(hist.prev, "/p/acg/A/bootstrap/j.ren1")
          /\ IsDir(hist.prev, "/p/acg/A/bootstrap/e.gen1.py")
          /\ ~Exists(fs, "/p/j.ren1")
          /\ IsFile(fs, "/p/e.gen1.py/t")
       \/ /\ ctx.template_config.init
          /\ IsFile(hist.prev, "/p/acg/A/bootstrap/acg/B/q.gen1.py")
          /\ IsFile(fs, "/p/acg/B/q.gen1.py")

\* C14 (Guarded copy): a bootstrap entry whose destination the workspace guard
\* protects is left out of the tree copy: nothing at or below its destination
\* is written, what is there stays as it was, and the tree copy does not
\* raise.
C14_GuardedCopy ==
    TreeCopyJustRan =>
        \A q \in BootstrapEntries :
            is_workspace_self_defence(ctx, CopyDestination(q)) =>
                /\ pc # "raised"
                /\ \A t \in hist.touched :
                       ~IsRelativeTo(t, CopyDestination(q))
                /\ Tree(fs, CopyDestination(q))
                       = Tree(hist.prev, CopyDestination(q))
                /\ \A t \in Tree(fs, CopyDestination(q)) :
                       fs[t] = hist.prev[t]

\* template B is defended and the bootstrap tree of A aims a file at B's
\* directory: the copy ran, the file is not there
C14_Witness ==
    /\ TreeCopyJustRan
    /\ pc = "mako"
    /\ IsFile(hist.prev, "/p/acg/A/bootstrap/acg/B/y")
    /\ is_workspace_self_defence(ctx, "/p/acg/B/y")
    /\ ~Exists(fs, "/p/acg/B/y")

\* the files the latest pass created or rewrote, byte-code caches aside
ArtifactsOfLatestPass ==
    {t \in DOMAIN fs :
        /\ IsFile(fs, t)
        /\ ~Exists(hist.prev, t) \/ hist.prev[t] # fs[t]
        /\ \A a \in {t} \cup Ancestors(t) : Name(a) # PYCACHE}

\* C15 (Guard in generator and rename passes): the init-only generator pass
\* and the init-only rename pass create no file at a destination the
\* workspace guard protects.
C15_GuardInGeneratorAndRenamePasses ==
    (pc # "idle" /\ hist.passes # <<>> /\ Last(hist.passes) \in {"gen1", "ren1"})
        => \A t \in ArtifactsOfLatestPass : ~is_workspace_self_defence(ctx, t)

\* the generator sweep that ran last, as it found the filesystem
GeneratorPassJustRan ==
    pc # "idle" /\ hist.passes # <<>> /\ Last(hist.passes) \in {"gen", "gen1"}

LatestGeneratorExt ==
    IF Last(hist.passes) = "gen1" THEN GEN_ONCE ELSE GEN

LatestGeneratorSweep ==
    Matched(hist.prev, ctx.target_root, LatestGeneratorExt, FALSE,
            SweepExcluded(ctx))

\* the latest pass left path t as it was
Untouched(t) ==
    /\ Exists(fs, t) = Exists(hist.prev, t)
    /\ Exists(fs, t) => fs[t] = hist.prev[t]

GeneratorNote == "GeneratorRaised: Failed executing generate(ctx) from "

\* C16 (Generator callable failure): when the callable of a generator raises
\* in a generator sweep, generate() raises with the exception carrying the
\* path of that generator script; every generator script of the sweep is
\* still in place, the target of the failing generator is as it was, and the
\* failing sweep is the last pass of the run: no rename pass and no cache
\* cleanup follow it.
C16_GeneratorCallableFailure ==
    /\ (pc # "idle" /\ StartsWith(hist.err, GeneratorNote)) =>
           /\ pc = "raised"
           /\ GeneratorPassJustRan
           /\ \A q \in LatestGeneratorSweep : IsFile(fs, q) /\ fs[q] = hist.prev[q]
           /\ \E q \in LatestGeneratorSweep :
                  /\ hist.prev[q].data = "generate!"
                  /\ q \in hist.calls
                  /\ hist.err = GeneratorNote \o q
                  /\ Untouched(RemoveSuffix(q, LatestGeneratorExt))
    /\ GeneratorPassJustRan =>
           \A q \in LatestGeneratorSweep :
               (hist.prev[q].data = "generate!" /\ q \in hist.calls) =>
                   pc = "raised" /\ hist.err = GeneratorNote \o q
    /\ \A i \in DOMAIN done :
           StartsWith(done[i].err, GeneratorNote) =>
               /\ done[i].status = "raised"
               /\ Last(done[i].passes) \in {"gen", "gen1"}
               /\ \A j \in DOMAIN done[i].passes :
                      done[i].passes[j] \notin {"ren", "cache"}

\* a renewable sweep of two generators stopped at the one that raises, after
\* the other one had written its target: both scripts are still there
C16_Witness ==
    /\ pc = "raised"
    /\ hist.err = GeneratorNote \o "/p/x.gen.py"
    /\ IsFile(fs, "/p/x.gen.py")
    /\ IsFile(fs, "/p/g.gen.py")
    /\ IsFile(fs, "/p/g")
    /\ ~Exists(hist.prev, "/p/g")
    /\ ~Exists(fs, "/p/x")

\* the scripts of the sweep written as "def generate(a, b)" or without any
\* generate function
WrongInterface(q) ==
    hist.prev[q].data \in {"generate/2", "rename:n"}

\* C17 (Generator interface check): a generator sweep that reaches a script
\* without a generate function, or with a generate function that does not
\* take exactly one positional parameter, raises InvalidGeneratorError; the
\* callable of that script is never invoked, its target is as it was, and the
\* sweep stops there: generate() raises and no script of the sweep is
\* removed. A sweep that raises InvalidGeneratorError holds such a script.
C17_GeneratorInterfaceCheck ==
    GeneratorPassJustRan =>
        /\ \A q \in LatestGeneratorSweep :
               WrongInterface(q) =>
                   /\ pc = "raised"
                   /\ q \notin hist.calls
                   /\ Untouched(RemoveSuffix(q, LatestGeneratorExt))
                   /\ \A s \in LatestGeneratorSweep : IsFile(fs, s)
                   /\ \/ hist.err = "InvalidGeneratorError"
                      \/ \E s \in LatestGeneratorSweep \ {q} :
                             /\ s \in hist.calls
                             /\ StartsWith(hist.err, GeneratorNote)
        /\ hist.err = "InvalidGeneratorError" =>
               \E q \in LatestGeneratorSweep : WrongInterface(q)

\* a sweep stopped at generate(a, b) after another generator had written its
\* target, or stopped at a module that defines no generate
C17_Witness ==
    /\ pc = "raised"
    /\ hist.err = "InvalidGeneratorError"
    /\ \/ /\ IsFile(fs, "/p/o.gen.py")
          /\ fs["/p/o.gen.py"].data = "generate/2"
          /\ ~Exists(fs, "/p/o")
          /\ "/p/g.gen.py" \in hist.calls
          /\ IsFile(fs, "/p/g.gen.py")
       \/ /\ IsFile(fs, "/p/n.gen.py")
          /\ ~Exists(fs, "/p/n")
          /\ hist.calls = {}

\* the expansion sweep that ran last, as it found the filesystem
ExpansionPassJustRan ==
    pc # "idle" /\ hist.passes # <<>> /\ Last(hist.passes) = "mako"

LatestExpansionSweep ==
    Matched(hist.prev, ctx.target_root, TEMPLATE_MAKO_EXT, FALSE,
            SweepExcluded(ctx))

\* the output of template q is in place
Expanded(q) ==
    /\ IsFile(fs, RemoveSuffix(q, TEMPLATE_MAKO_EXT))
    /\ fs[RemoveSuffix(q, TEMPLATE_MAKO_EXT)].data
           = Render(hist.prev[q].data, ctx.project_config.project_name)

\* C18 (Expansion deletion timing): when a template of the expansion sweep
\* has failed, so that its output is not in place after the pass, no template
\* source of the sweep has been deleted.
C18_ExpansionDeletionTiming ==
    (ExpansionPassJustRan /\ \E q \in LatestExpansionSweep : ~Expanded(q))
        => \A q \in LatestExpansionSweep : IsFile(fs, q)

\* C19 (Expansion write errors are non-fatal): when every template of the
\* sweep renders, the expansion pass does not raise, whether or not an output
\* can be written, and the output of every template whose destination can be
\* written is in place after the pass.
C19_ExpansionWriteErrorsNonFatal ==
    (ExpansionPassJustRan
        /\ \A q \in LatestExpansionSweep : ~RenderFails(hist.prev[q].data))
        => /\ pc # "raised"
           /\ \A q \in LatestExpansionSweep :
                  (~IsDir(hist.prev, RemoveSuffix(q, TEMPLATE_MAKO_EXT))
                      /\ ~IsReadOnlyDir(hist.prev, Parent(q)))
                      => Expanded(q)

\* C20 (Emptiness is decided once): a main() invocation that has decided the
\* emptiness of the workspace and reached its first template goes through
\* every template of every project with that one value: it returns having
\* entered generate() for each of them, in the order of the configuration.
C20_EmptinessDecidedOnce ==
    (mainSt.at # "none" /\ mainSt.template # "") =>
        /\ mainSt.at = "returned"
        /\ Len(mainSt.ran) = Len(TemplatesInOrder(cfg, 1))
        /\ \A k \in DOMAIN mainSt.ran :
               mainSt.ran[k] = TemplatesInOrder(cfg, 1)[k].name

\* C21 (Processing order): a main() invocation that has reached the
\* generate() call of a template has entered the pipeline of that template
\* and, before it, the pipelines of every template that precedes it in the
\* order top project first, then the members, each project's templates in
\* the order of its mapping.
C21_ProcessingOrder ==
    (mainSt.at # "none" /\ mainSt.template # "") =>
        \E k \in DOMAIN TemplatesInOrder(cfg, 1) :
            /\ TemplatesInOrder(cfg, 1)[k].name = mainSt.template
            /\ Len(mainSt.ran) >= k
            /\ \A j \in 1..k :
                   mainSt.ran[j] = TemplatesInOrder(cfg, 1)[j].name

\* the configuration faults of the workspace, as main() is started in it
TopAcgMissing ==
    \A q \in {ask.cwd} \cup Ancestors(ask.cwd) \cup {"/"} :
        ~IsDir(hist.prev, Join(q, "acg"))

MemberAcgMissing ==
    \E i \in DOMAIN cfg[1].workspace.members :
        ~IsDir(hist.prev,
               Join(Join(cfg[1].project_root, cfg[1].workspace.members[i]),
                    "acg"))

MemberDeclaresWorkspace ==
    \E i \in 2..Len(cfg) : cfg[i].workspace.has

\* C22 (Configuration errors abort before generation): when no acg directory
\* is found for the top project, or the acg directory of a workspace member
\* is missing, or the configuration of a member declares a workspace, main()
\* returns 1; it has reached no generate() call, entered no template run,
\* and left the filesystem as it was.
C22_ConfigurationErrorsAbort ==
    (pc = "main" /\ mainSt.at # "none"
        /\ (TopAcgMissing \/ MemberAcgMissing \/ MemberDeclaresWorkspace))
        => /\ mainSt.at = "fatal"
           /\ mainSt.template = ""
           /\ mainSt.ran = <<>>
           /\ fs = hist.prev

\* main() returned 1 over a workspace whose member m has no acg directory
C22_Witness ==
    /\ pc = "main"
    /\ mainSt.at = "fatal"
    /\ mainSt.err = "AcgDirectoryNotFoundError"
    /\ IsDir(fs, "/p/acg")
    /\ IsDir(fs, "/p/m")
    /\ ~Exists(fs, "/p/m/acg")

\* C23 (Sweep scoping): the expansion pass and the two generator passes
\* change nothing at or below the templates root of the owning project, no
\* template or script below it is rendered, executed or deleted, and what
\* they change lies below the target root, also when the target root holds
\* the templates root.
C23_SweepScoping ==
    (pc # "idle" /\ hist.passes # <<>>
        /\ Last(hist.passes) \in {"mako", "gen", "gen1"})
        => /\ \A q \in DOMAIN fs \cup DOMAIN hist.prev :
                  IF IsRelativeTo(q, ctx.project_config.templates_root)
                  THEN Untouched(q)
                  ELSE Untouched(q) \/ IsRelativeTo(q, ctx.target_root)
           /\ \A q \in hist.calls :
                  ~IsRelativeTo(q, ctx.project_config.templates_root)

\* the renewable generator sweep ran g.gen.py in the target root /p, which
\* holds the templates root /p/acg, and left the copy in A's bootstrap tree
C23_Witness ==
    /\ pc # "idle" /\ hist.passes # <<>> /\ Last(hist.passes) = "gen"
    /\ IsRelativeTo(ctx.project_config.templates_root, ctx.target_root)
    /\ "/p/g.gen.py" \in hist.calls
    /\ IsFile(fs, "/p/g")
    /\ ~Exists(fs, "/p/g.gen.py")
    /\ IsFile(fs, "/p/acg/A/bootstrap/g.gen.py")

\* the names the loaded data gives to templates, and the directories found
\* directly below the templates root
NamedInData == {ask.data.templates[i].name : i \in DOMAIN ask.data.templates}

TemplateDirs ==
    {Name(q) : q \in {x \in DOMAIN fs :
                         /\ x # TopTemplatesRoot
                         /\ Parent(x) = TopTemplatesRoot
                         /\ IsDir(fs, x)}}

\* C24 (Implicit templates): the templates of a loaded configuration are,
\* one entry each, the templates the data names and the directories of
\* templates_root the data does not name; a named template has every setting
\* the data gives it, an unnamed directory has the default settings
\* (target_dir ".", init false, self_defence true, the project's name); a
\* file in templates_root gives no template, and the caller's data is after
\* the call what it was before.
C24_ImplicitTemplates ==
    ask.fn = "load" =>
        /\ {ask.config.templates[j].name : j \in DOMAIN ask.config.templates}
               = NamedInData \cup TemplateDirs
        /\ Len(ask.config.templates) = Cardinality(NamedInData \cup TemplateDirs)
        /\ \A i \in DOMAIN ask.data.templates :
               \E j \in DOMAIN ask.config.templates :
                   LET raw == ask.data.templates[i].raw
                       t == ask.config.templates[j]
                   IN  /\ t.name = ask.data.templates[i].name
                       /\ "project_name" \in DOMAIN raw =>
                              t.project_name = raw["project_name"]
                       /\ "bootstrap.init" \in DOMAIN raw =>
                              t.bootstrap.init = (raw["bootstrap.init"] = "true")
                       /\ "bootstrap.self_defence" \in DOMAIN raw =>
                              t.bootstrap.self_defence
                                  = (raw["bootstrap.self_defence"] = "true")
                       /\ "bootstrap.target_dir" \in DOMAIN raw =>
                              t.bootstrap.target_dir = raw["bootstrap.target_dir"]
        /\ \A d \in TemplateDirs \ NamedInData :
               \E j \in DOMAIN ask.config.templates :
                   /\ ask.config.templates[j].name = d
                   /\ ask.config.templates[j].project_name
                          = ask.config.project_name
                   /\ ask.config.templates[j].bootstrap
                          = [target_dir |-> ".", init |-> FALSE,
                             self_defence |-> TRUE]
        /\ ask.data_after = ask.data

\* the data names template A with init = true; the templates root holds the
\* directories A and B and the file config.toml: the configuration has A as
\* configured and B with the defaults
C24_Witness ==
    /\ ask.fn = "load"
    /\ NamedInData = {"A"}
    /\ TemplateDirs = {"A", "B"}
    /\ IsFile(fs, "/p/acg/config.toml")
    /\ Len(ask.config.templates) = 2
    /\ ask.config.templates[1].name = "A"
    /\ ask.config.templates[1].bootstrap.init
    /\ ask.config.templates[2].name = "B"
    /\ ~ask.config.templates[2].bootstrap.init

\* C25 (Tree copy merges and creates): the tree copy does not raise, whether
\* the target root was missing or there; after it the target root is a
\* directory, every bootstrap entry the guard does not protect is at its
\* destination with the entry's content, and every path that is the
\* destination of no bootstrap entry is what it was (the __pycache__
\* directories aside, which the detached cleanup of an earlier run may be
\* removing meanwhile).
C25_TreeCopyMergesAndCreates ==
    TreeCopyJustRan =>
        /\ pc # "raised"
        /\ IsDir(fs, ctx.target_root)
        /\ \A q \in BootstrapEntries :
               ~GuardedEntry(q) =>
                   /\ Exists(fs, CopyDestination(q))
                   /\ fs[CopyDestination(q)] = hist.prev[q]
        /\ \A t \in DOMAIN hist.prev :
               (Name(t) # PYCACHE
                   /\ \A q \in BootstrapEntries : CopyDestination(q) # t) =>
                   Exists(fs, t) /\ fs[t] = hist.prev[t]

\* C26 (Project-target emptiness test): called for a project whose templates
\* root exists, is_project_target_empty returns, and returns true exactly
\* when every entry of the project root is the templates root or one of the
\* project's workspace members.
C26_ProjectTargetEmptiness ==
    (ask.fn = "empty" /\ IsDir(fs, cfg[ask.project].templates_root)) =>
        LET c == cfg[ask.project]
            allowed == {c.templates_root}
                       \cup {Join(c.project_root, c.workspace.members[i]) :
                                i \in DOMAIN c.workspace.members}
        IN  /\ ask.answer.ok
            /\ ask.answer.value
                   = \A q \in DOMAIN fs :
                         (q # c.project_root /\ Parent(q) = c.project_root)
                             => q \in allowed

\* C27 (Rename sweep scoping): a rename pass moves no path from below the
\* templates root of the owning project, and every marked path below that
\* templates root is after the pass what it was before.
C27_RenameSweepScoping ==
    (pc # "idle" /\ hist.passes # <<>> /\ Last(hist.passes) \in {"ren", "ren1"})
        => /\ \A i \in DOMAIN hist.moves :
                  ~IsRelativeTo(hist.moves[i].src,
                                ctx.project_config.templates_root)
           /\ \A q \in DOMAIN hist.prev :
                  (/\ IsRelativeTo(q, ctx.project_config.templates_root)
                   /\ \/ EndsWith(Name(q), REN)
                      \/ EndsWith(Name(q), REN_ONCE))
                      => Untouched(q)

\* C28 (Rename pass completes): the renewable rename pass does not raise and
\* leaves no path carrying the .rename marker below the target root, the
\* running template's own directory aside; a marked directory inside a
\* marked directory ends at <renamed outer>/<renamed inner>.
C28_RenamePassCompletes ==
    (pc # "idle" /\ hist.passes # <<>> /\ Last(hist.passes) = "ren")
        => /\ pc # "raised"
           /\ \A q \in DOMAIN fs :
                  (/\ IsRelativeTo(q, ctx.target_root)
                   /\ ~IsRelativeTo(q, Join(ctx.project_config.templates_root,
                                            ctx.template_name)))
                      => ~EndsWith(Name(q), REN)
           /\ IsDir(hist.prev, "/p/u.rename/v.rename") =>
                  /\ IsDir(fs, "/p/u/v")
                  /\ IsFile(fs, "/p/u/v/w")

====
